---- MODULE Spec2Model ----
(***************************************************************************)
(* Model of the Frontier Silicon API client, src/fsapi/__init__.py:        *)
(* class FSAPI (endpoint discovery, session creation, the call primitive,  *)
(* the typed handlers and the composite properties built on them).         *)
(*                                                                         *)
(* Python values are tagged records, text is a sequence of characters, an  *)
(* XML element is a record [tag, name, text, children], and the result of  *)
(* a method is a record [raised, exc, ret, sent]: whether it raised, the   *)
(* exception, the value returned, and the HTTP requests it issued.         *)
(***************************************************************************)
EXTENDS Integers, Sequences, FiniteSets, TLC

VARIABLES
    phase,      \* "new", "ready" (__init__ returned), "failed" (__init__ raised), "deleted"
    pin,        \* self.pin
    sid,        \* self.sid
    webfsapi,   \* self.webfsapi
    op,         \* the operation that ran last: its name and its inputs
    out         \* what that operation did: [raised, exc, ret, sent]

vars == <<phase, pin, sid, webfsapi, op, out>>

----------------------------------------------------------------------------
(* Bounds of the model *)

\* longest list of item nodes in a LIST response
MaxItems == 2

\* longest text of a c8_array leaf in the round-trip specification
MaxTextLen == 2

----------------------------------------------------------------------------
(* Python values *)

None == [t |-> "None"]
PyBool(b) == [t |-> "bool", b |-> b]
PyInt(i) == [t |-> "int", i |-> i]
PyStr(s) == [t |-> "str", s |-> s]
PyList(l) == [t |-> "list", l |-> l]
PyDict(d) == [t |-> "dict", d |-> d]
PyElem(e) == [t |-> "elem", e |-> e]

Return(v, sent) == [raised |-> FALSE, exc |-> "", ret |-> v, sent |-> sent]
Raise(e, sent) == [raised |-> TRUE, exc |-> e, ret |-> None, sent |-> sent]

Digits == <<"0", "1", "2", "3", "4", "5", "6", "7", "8", "9">>
DigitChars == {Digits[i] : i \in 1..10}
DigitVal(c) == (CHOOSE i \in 1..10 : Digits[i] = c) - 1

\* str(n) of a non-negative int: its decimal digits
RECURSIVE EncodeInt(_)
EncodeInt(n) ==
    IF n < 10 THEN <<Digits[n + 1]>>
    ELSE Append(EncodeInt(n \div 10), Digits[(n % 10) + 1])

IsDigits(s) == Len(s) > 0 /\ \A i \in 1..Len(s) : s[i] \in DigitChars

RECURSIVE DigitsValue(_)
DigitsValue(s) ==
    IF Len(s) = 0 THEN 0
    ELSE DigitsValue(SubSeq(s, 1, Len(s) - 1)) * 10 + DigitVal(s[Len(s)])

\* int(x): TypeError on None, ValueError on text that is no decimal literal
PyIntOf(x) ==
    IF x = None THEN Raise("TypeError", <<>>)
    ELSE IF IsDigits(x.s) THEN Return(PyInt(DigitsValue(x.s)), <<>>)
    ELSE Raise("ValueError", <<>>)

----------------------------------------------------------------------------
(* XML elements as lxml.objectify presents them *)

Leaf(tag, text) == [tag |-> tag, name |-> "", text |-> text, children |-> <<>>]
Elt(tag, children) == [tag |-> tag, name |-> "", text |-> <<>>, children |-> children]
Field(name, children) == [tag |-> "field", name |-> name, text |-> <<>>, children |-> children]

HasChild(n, tag) == \E i \in 1..Len(n.children) : n.children[i].tag = tag

\* n.<tag>: the first child with that tag (AttributeError when HasChild fails)
Child(n, tag) ==
    n.children[CHOOSE i \in 1..Len(n.children) :
                  /\ n.children[i].tag = tag
                  /\ \A j \in 1..(i - 1) : n.children[j].tag # tag]

\* n.text: None for an element without text
TextOf(n) == IF n.text = <<>> THEN None ELSE PyStr(n.text)

\* the Python value objectify gives a data element: an int for a decimal
\* literal, a str otherwise; an element with children is a plain tree element
PyVal(n) ==
    IF n.children # <<>> THEN PyElem(n)
    ELSE IF IsDigits(n.text) THEN PyInt(DigitsValue(n.text))
    ELSE PyStr(n.text)

\* a == b in Python, an element standing for its value
Unwrap(v) == IF v.t = "elem" THEN PyVal(v.e) ELSE v
PyEq(a, b) == Unwrap(a) = Unwrap(b)

\* bool(v)
Truthy(v) ==
    LET u == Unwrap(v) IN
    CASE u.t = "None" -> FALSE
      [] u.t = "bool" -> u.b
      [] u.t = "int" -> u.i # 0
      [] u.t = "str" -> u.s # <<>>
      [] u.t = "list" -> u.l # <<>>
      [] u.t = "elem" -> u.e.children # <<>>
      [] OTHER -> TRUE

NoneText == <<"N", "o", "n", "e">>

\* str(v) for the values the client stringifies
PyStrOf(v) ==
    LET u == Unwrap(v) IN
    CASE u.t = "None" -> PyStr(NoneText)
      [] u.t = "int" -> PyStr(EncodeInt(u.i))
      [] u.t = "elem" -> PyStr(u.e.text)
      [] OTHER -> u

----------------------------------------------------------------------------
(* Transport: what self.session.get does, and the parse of a body *)

TransportError == [kind |-> "error"]
Http(code, content) == [kind |-> "http", status_code |-> code, content |-> content]
Malformed == [wf |-> FALSE]
Body(root) == [wf |-> TRUE, root |-> root]
Ok(root) == Http(200, Body(root))
NotFound == Http(404, Malformed)
Garbage == Http(200, Malformed)

\* objectify.fromstring(content)
fromstring(content) ==
    IF content.wf THEN Return(PyElem(content.root), <<>>)
    ELSE Raise("XMLSyntaxError", <<>>)

FS_OK == <<"F", "S", "_", "O", "K">>
FS_FAIL == <<"F", "S", "_", "F", "A", "I", "L">>

----------------------------------------------------------------------------
(* FSAPI.call *)

Request(url, params) == [url |-> url, params |-> params]

\* params = dict(pin=..., sid=...); params.update(**extra)
Params(self, extra) ==
    LET base == [pin |-> self.pin, sid |-> self.sid]
    IN  [k \in {"pin", "sid"} \cup DOMAIN extra |->
            IF k \in DOMAIN extra THEN extra[k] ELSE base[k]]

EmptyDict == [k \in {} |-> None]

\* the try block of call
call_try(self, path, extra, resp) ==
    IF self.webfsapi = None \/ self.webfsapi = PyStr(<<>>) THEN Raise("Exception", <<>>)
    ELSE
        LET ex == IF extra.t = "dict" THEN extra.d ELSE EmptyDict
            req == Request(<<self.webfsapi>> \o path, Params(self, ex))
        IN  IF resp.kind = "error" THEN Raise("ConnectionError", <<req>>)
            ELSE IF resp.status_code = 404 THEN Return(None, <<req>>)
            ELSE LET doc == fromstring(resp.content)
                 IN  [doc EXCEPT !.sent = <<req>>]

\* the try block without its except clause: what it raises reaches the caller
call_uncaught(self, path, extra, resp) == call_try(self, path, extra, resp)

\* call: the try block, and except Exception: log, fall through to return None
call(self, path, extra, resp) ==
    LET r == call_try(self, path, extra, resp)
    IN  IF r.raised THEN Return(None, r.sent) ELSE r

----------------------------------------------------------------------------
(* Handlers *)

\* handle_get
handle_get(self, item, resp) == call(self, <<"GET", item>>, None, resp)

\* handle_set reporting a delivered response as applied whatever its status
handle_set_any_status(self, item, value, resp) ==
    LET doc == call(self, <<"SET", item>>, PyDict([value |-> value]), resp)
    IN  IF doc.ret = None THEN Return(None, doc.sent)
        ELSE IF ~HasChild(doc.ret.e, "status") THEN Raise("AttributeError", doc.sent)
        ELSE Return(PyBool(TRUE), doc.sent)

\* handle_set
handle_set(self, item, value, resp) ==
    LET doc == call(self, <<"SET", item>>, PyDict([value |-> value]), resp)
    IN  IF doc.ret = None THEN Return(None, doc.sent)
        ELSE IF ~HasChild(doc.ret.e, "status") THEN Raise("AttributeError", doc.sent)
        ELSE Return(PyBool(PyEq(PyElem(Child(doc.ret.e, "status")), PyStr(FS_OK))), doc.sent)

\* doc.value.<tag>.text, with the AttributeError of a missing child
ValueText(doc, tag) ==
    IF ~HasChild(doc, "value") THEN Raise("AttributeError", <<>>)
    ELSE IF ~HasChild(Child(doc, "value"), tag) THEN Raise("AttributeError", <<>>)
    ELSE Return(TextOf(Child(Child(doc, "value"), tag)), <<>>)

\* handle_text
handle_text(self, item, resp) ==
    LET doc == handle_get(self, item, resp)
        txt == ValueText(doc.ret.e, "c8_array")
    IN  IF doc.ret = None THEN Return(None, doc.sent)
        ELSE IF txt.raised THEN Raise(txt.exc, doc.sent)
        ELSE Return(IF Truthy(txt.ret) THEN txt.ret ELSE None, doc.sent)

\* the body shared by handle_int and handle_long: int(doc.value.<tag>.text)
HandleNumber(self, item, tag, resp) ==
    LET doc == handle_get(self, item, resp)
        txt == ValueText(doc.ret.e, tag)
        num == PyIntOf(txt.ret)
    IN  IF doc.ret = None THEN Return(None, doc.sent)
        ELSE IF txt.raised THEN Raise(txt.exc, doc.sent)
        ELSE IF num.raised THEN Raise(num.exc, doc.sent)
        ELSE Return(num.ret, doc.sent)

\* handle_int
handle_int(self, item, resp) == HandleNumber(self, item, "u8", resp)

\* handle_long reading the u8 child, as handle_int does
handle_long_reads_u8(self, item, resp) == HandleNumber(self, item, "u8", resp)

\* handle_long
handle_long(self, item, resp) == HandleNumber(self, item, "u32", resp)

\* d[k] = v
Put(d, k, v) == [x \in (DOMAIN d) \cup {k} |-> IF x = k THEN v ELSE d[x]]

\* temp[field.get('name')] = list(field.iterchildren()).pop(), field by field
RECURSIVE FillFields(_, _)
FillFields(temp, fields) ==
    IF fields = <<>> THEN temp
    ELSE LET f == Head(fields)
         IN  FillFields(Put(temp, f.name, PyElem(f.children[Len(f.children)])), Tail(fields))

\* the entry of one item node: dict(band=index), then its fields
ItemEntry(index, item) == PyDict(FillFields([band |-> PyInt(index)], item.children))

\* pop() from an empty list: a field without a payload node
PopFails(item) == \E i \in 1..Len(item.children) : item.children[i].children = <<>>

ItemNodes(doc) == SelectSeq(doc.children, LAMBDA n : n.tag = "item")

MaxItemsParam == 100

\* handle_list
handle_list(self, item, resp) ==
    LET doc == call(self, <<"LIST_GET_NEXT", item, "-1">>,
                    PyDict([maxItems |-> PyInt(MaxItemsParam)]), resp)
        items == ItemNodes(doc.ret.e)
    IN  IF doc.ret = None THEN Return(PyList(<<>>), doc.sent)
        ELSE IF ~HasChild(doc.ret.e, "status") THEN Raise("AttributeError", doc.sent)
        ELSE IF ~PyEq(PyElem(Child(doc.ret.e, "status")), PyStr(FS_OK))
             THEN Return(PyList(<<>>), doc.sent)
        ELSE IF \E i \in 1..Len(items) : PopFails(items[i]) THEN Raise("IndexError", doc.sent)
        ELSE Return(PyList([i \in 1..Len(items) |-> ItemEntry(i - 1, items[i])]), doc.sent)

\* collect_labels
collect_labels(items) ==
    IF items = None THEN Return(PyList(<<>>), <<>>)
    ELSE IF \E i \in 1..Len(items.l) : "label" \notin DOMAIN items.l[i].d
         THEN Raise("KeyError", <<>>)
    ELSE LET kept == SelectSeq(items.l, LAMBDA e : Truthy(e.d["label"]))
         IN  Return(PyList([i \in 1..Len(kept) |-> PyStrOf(kept[i].d["label"])]), <<>>)

----------------------------------------------------------------------------
(* Properties built on the handlers *)

\* PLAY_STATES.get(status)
PLAY_STATES(status) ==
    IF status = PyInt(0) THEN PyStr(<<"s", "t", "o", "p", "p", "e", "d">>)
    ELSE IF status = PyInt(1) THEN PyStr(<<"u", "n", "k", "n", "o", "w", "n">>)
    ELSE IF status = PyInt(2) THEN PyStr(<<"p", "l", "a", "y", "i", "n", "g">>)
    ELSE IF status = PyInt(3) THEN PyStr(<<"p", "a", "u", "s", "e", "d">>)
    ELSE None

\* play_status
play_status(self, resp) ==
    LET status == handle_int(self, "netRemote.play.status", resp)
    IN  IF status.raised THEN status ELSE Return(PLAY_STATES(status.ret), status.sent)

\* get_mute, get_power, get_state: bool(self.handle_int(item))
BoolOfInt(self, item, resp) ==
    LET v == handle_int(self, item, resp)
    IN  IF v.raised THEN v ELSE Return(PyBool(Truthy(v.ret)), v.sent)

get_mute(self, resp) == BoolOfInt(self, "netRemote.sys.audio.mute", resp)
get_power(self, resp) == BoolOfInt(self, "netRemote.sys.power", resp)
get_state(self, resp) == BoolOfInt(self, "netRemote.nav.state", resp)

\* set_volume
set_volume(self, value, resp) == handle_set(self, "netRemote.sys.audio.volume", value, resp)

\* modes, presets, eq_presets
modes(self, resp) == handle_list(self, "netRemote.sys.caps.validModes", resp)
presets(self, resp) == handle_list(self, "netRemote.nav.presets", resp)
eq_presets(self, resp) == handle_list(self, "netRemote.sys.caps.eqPresets", resp)

\* mode_list
mode_list(self, resp) ==
    LET m == modes(self, resp)
        labels == collect_labels(m.ret)
    IN  IF m.raised THEN m
        ELSE IF labels.raised THEN Raise(labels.exc, m.sent)
        ELSE Return(labels.ret, m.sent)

\* the positions the loop of a getter assigns at: entries whose band equals number
BandMatches(entries, number) ==
    {i \in 1..Len(entries) : PyEq(entries[i].d["band"], number)}

\* the positions the loop of a setter assigns at: entries whose field equals value
KeyMatches(entries, key, value) ==
    {i \in 1..Len(entries) : PyEq(entries[i].d[key], value)}

\* the position of the assignment that stands when the loop ends
Standing(matches) == CHOOSE i \in matches : \A j \in matches : j <= i

\* the loop of get_mode and get_eq_preset, and the str() of what it leaves
LabelOfBand(number, list) ==
    LET entries == list.ret.l
        hits == BandMatches(entries, number.ret)
    IN  IF number.raised THEN number
        ELSE IF list.raised THEN Raise(list.exc, number.sent \o list.sent)
        ELSE IF \E i \in hits : "label" \notin DOMAIN entries[i].d
             THEN Raise("KeyError", number.sent \o list.sent)
        ELSE Return(PyStrOf(IF hits = {} THEN None ELSE entries[Standing(hits)].d["label"]),
                    number.sent \o list.sent)

\* get_mode
get_mode(self, r1, r2) ==
    LabelOfBand(handle_long(self, "netRemote.sys.mode", r1), modes(self, r2))

\* get_eq_preset
get_eq_preset(self, r1, r2) ==
    LabelOfBand(handle_int(self, "netRemote.sys.audio.eqPreset", r1), eq_presets(self, r2))

\* the loop of set_mode, set_preset and set_eq_preset: the band to send
BandOf(entries, key, value) ==
    LET hits == KeyMatches(entries, key, value)
    IN  IF hits = {} THEN PyInt(-1) ELSE entries[Standing(hits)].d["band"]

\* the loop, then handle_set with what it leaves
SetByKey(self, list, key, value, item, resp) ==
    LET entries == list.ret.l
        set == handle_set(self, item, BandOf(entries, key, value), resp)
    IN  IF list.raised THEN list
        ELSE IF \E i \in 1..Len(entries) : key \notin DOMAIN entries[i].d
             THEN Raise("KeyError", list.sent)
        ELSE [set EXCEPT !.sent = list.sent \o set.sent]

\* set_mode: the result of handle_set is dropped
set_mode(self, value, r1, r2) ==
    LET r == SetByKey(self, modes(self, r1), "label", value, "netRemote.sys.mode", r2)
    IN  IF r.raised THEN r ELSE Return(None, r.sent)

\* set_preset
set_preset(self, value, r1, r2) ==
    SetByKey(self, presets(self, r1), "name", value, "netRemote.nav.action.selectPreset", r2)

\* set_eq_preset
set_eq_preset(self, value, r1, r2) ==
    SetByKey(self, eq_presets(self, r1), "label", value, "netRemote.sys.audio.eqPreset", r2)

----------------------------------------------------------------------------
(* Construction and teardown *)

\* get_fsapi_endpoint
get_fsapi_endpoint(self, resp) ==
    LET req == Request(<<self.fsapi_device_url>>, EmptyDict)
    IN  IF resp.kind = "error" THEN Raise("ConnectionError", <<req>>)
        ELSE LET doc == fromstring(resp.content)
             IN  IF doc.raised THEN Raise(doc.exc, <<req>>)
                 ELSE IF ~HasChild(doc.ret.e, "webfsapi") THEN Raise("AttributeError", <<req>>)
                 ELSE Return(TextOf(Child(doc.ret.e, "webfsapi")), <<req>>)

\* create_session
create_session(self, resp) ==
    LET doc == call(self, <<"CREATE_SESSION">>, None, resp)
    IN  IF doc.ret = None THEN Raise("AttributeError", doc.sent)
        ELSE IF ~HasChild(doc.ret.e, "sessionId") THEN Raise("AttributeError", doc.sent)
        ELSE Return(TextOf(Child(doc.ret.e, "sessionId")), doc.sent)

\* __init__: the fields it leaves and how it ended
fsapi_init(url, thePin, r1, r2) ==
    LET self0 == [pin |-> thePin, sid |-> None, webfsapi |-> None, fsapi_device_url |-> url]
        ep == get_fsapi_endpoint(self0, r1)
        self1 == [self0 EXCEPT !.webfsapi = ep.ret]
        ses == create_session(self1, r2)
        self2 == [self1 EXCEPT !.sid = ses.ret]
    IN  IF ep.raised THEN [self |-> self0, res |-> ep]
        ELSE IF ses.raised THEN [self |-> self1, res |-> Raise(ses.exc, ep.sent \o ses.sent)]
        ELSE [self |-> self2, res |-> Return(None, ep.sent \o ses.sent)]

Self == [pin |-> pin, sid |-> sid, webfsapi |-> webfsapi]

DeviceUrl == <<"h", "/", "d">>
Endpoint == <<"h", "/", "f">>
ThePin == PyStr(<<"1", "2", "3", "4">>)
SessionId == <<"4", "2">>

DiscoveryResponses ==
    { TransportError, NotFound, Garbage,
      Ok(Elt("netRemote", <<Leaf("friendlyName", <<"a">>)>>)),
      Ok(Elt("netRemote", <<Leaf("webfsapi", <<>>)>>)),
      Ok(Elt("netRemote", <<Leaf("friendlyName", <<"a">>), Leaf("webfsapi", Endpoint)>>)) }

SessionResponses ==
    { TransportError, NotFound, Garbage,
      Ok(Elt("fsapiResponse", <<Leaf("status", FS_FAIL)>>)),
      Ok(Elt("fsapiResponse", <<Leaf("status", FS_OK), Leaf("sessionId", <<>>)>>)),
      Ok(Elt("fsapiResponse", <<Leaf("status", FS_OK), Leaf("sessionId", SessionId)>>)) }

Init ==
    /\ phase = "new"
    /\ pin = None
    /\ sid = None
    /\ webfsapi = None
    /\ op = [name |-> "none"]
    /\ out = Return(None, <<>>)

Construct ==
    /\ phase = "new"
    /\ \E r1 \in DiscoveryResponses, r2 \in SessionResponses :
          LET c == fsapi_init(DeviceUrl, ThePin, r1, r2) IN
          /\ pin' = c.self.pin
          /\ sid' = c.self.sid
          /\ webfsapi' = c.self.webfsapi
          /\ phase' = IF c.res.raised THEN "failed" ELSE "ready"
          /\ op' = [name |-> "__init__", r1 |-> r1, r2 |-> r2]
          /\ out' = c.res

DeleteResponses ==
    {TransportError, NotFound, Garbage, Ok(Elt("fsapiResponse", <<Leaf("status", FS_OK)>>))}

\* __del__: runs on every object, also one whose __init__ raised; out is the
\* result of the call it makes, which __del__ itself drops
Del ==
    /\ phase \in {"ready", "failed"}
    /\ \E r \in DeleteResponses :
          /\ out' = call(Self, <<"DELETE_SESSION">>, None, r)
          /\ op' = [name |-> "__del__", resp |-> r]
    /\ phase' = "deleted"
    /\ UNCHANGED <<pin, sid, webfsapi>>

----------------------------------------------------------------------------
(* What the device may answer *)

Resp(children) == Ok(Elt("fsapiResponse", children))
StatusOk == Leaf("status", FS_OK)
StatusFail == Leaf("status", FS_FAIL)
ValueNode(tag, text) == Elt("value", <<Leaf(tag, text)>>)

Failures == {TransportError, NotFound, Garbage}

GetResponses ==
    Failures \cup
    { Resp(<<StatusFail>>),
      Resp(<<StatusOk, Elt("value", <<>>)>>),
      Resp(<<StatusOk, ValueNode("c8_array", <<>>)>>),
      Resp(<<StatusOk, ValueNode("c8_array", <<"a">>)>>),
      Resp(<<StatusOk, ValueNode("u8", <<>>)>>),
      Resp(<<StatusOk, ValueNode("u8", <<"a">>)>>),
      Resp(<<StatusOk, ValueNode("u8", <<"0">>)>>),
      Resp(<<StatusOk, ValueNode("u8", <<"2">>)>>),
      Resp(<<StatusOk, ValueNode("u32", <<"1">>)>>),
      Http(500, Body(Elt("fsapiResponse", <<StatusOk, ValueNode("u32", <<"7">>)>>))) }

SetResponses ==
    Failures \cup
    { Resp(<<>>), Resp(<<StatusOk>>), Resp(<<StatusFail>>), Resp(<<Leaf("status", <<>>)>>),
      Http(500, Body(Elt("fsapiResponse", <<StatusFail>>))) }

TextField(name, text) == Field(name, <<Leaf("c8_array", text)>>)

ItemA == Elt("item", <<TextField("label", <<"a">>), TextField("name", <<"b">>)>>)
ItemB == Elt("item", <<TextField("label", <<"b">>), TextField("name", <<"a">>)>>)
ItemBand == Elt("item", <<Field("band", <<Leaf("u8", <<"7">>)>>), TextField("label", <<"a">>)>>)
ItemEmpty == Elt("item", <<Field("label", <<>>)>>)

ItemSet == {ItemA, ItemB, ItemBand, ItemEmpty}

Lists == UNION {[1..n -> ItemSet] : n \in 0..MaxItems}

ListResponses ==
    Failures \cup
    { Resp(<<ItemA>>), Resp(<<StatusFail, ItemA>>) } \cup
    { Resp(<<StatusOk>> \o l) : l \in Lists }

Items == {"netRemote.sys.audio.volume", "netRemote.play.position"}
SetValues == {PyInt(5), PyStr(<<"a">>)}
Volumes == {PyInt(0), PyInt(5)}

CallPaths == {<<"GET", "netRemote.sys.power">>, <<"DELETE_SESSION">>}
CallExtras ==
    { None, PyList(<<>>), PyDict(EmptyDict),
      PyDict([value |-> PyInt(5)]),
      PyDict([pin |-> PyStr(<<"0">>)]),
      PyDict([sid |-> PyStr(<<"9">>), maxItems |-> PyInt(1)]) }
CallResponses == Failures \cup {Resp(<<StatusOk>>)}

----------------------------------------------------------------------------
(* The operations a caller runs on a constructed client *)

Ran(o, r) ==
    /\ op' = o
    /\ out' = r
    /\ UNCHANGED <<phase, pin, sid, webfsapi>>

Call ==
    /\ phase = "ready"
    /\ \E path \in CallPaths, extra \in CallExtras, resp \in CallResponses :
          Ran([name |-> "call", path |-> path, extra |-> extra, resp |-> resp],
              call(Self, path, extra, resp))

HandleSet ==
    /\ phase = "ready"
    /\ \E item \in Items, value \in SetValues, resp \in SetResponses :
          Ran([name |-> "handle_set", item |-> item, value |-> value, resp |-> resp],
              handle_set(Self, item, value, resp))

SetVolume ==
    /\ phase = "ready"
    /\ \E value \in Volumes, resp \in SetResponses :
          Ran([name |-> "set_volume", value |-> value, resp |-> resp],
              set_volume(Self, value, resp))

HandleText ==
    /\ phase = "ready"
    /\ \E item \in Items, resp \in GetResponses :
          Ran([name |-> "handle_text", item |-> item, resp |-> resp],
              handle_text(Self, item, resp))

HandleInt ==
    /\ phase = "ready"
    /\ \E item \in Items, resp \in GetResponses :
          Ran([name |-> "handle_int", item |-> item, resp |-> resp],
              handle_int(Self, item, resp))

HandleLong ==
    /\ phase = "ready"
    /\ \E item \in Items, resp \in GetResponses :
          Ran([name |-> "handle_long", item |-> item, resp |-> resp],
              handle_long(Self, item, resp))

HandleList ==
    /\ phase = "ready"
    /\ \E item \in Items, resp \in ListResponses :
          Ran([name |-> "handle_list", item |-> item, resp |-> resp],
              handle_list(Self, item, resp))

Next ==
    \/ Construct
    \/ Call
    \/ HandleSet
    \/ SetVolume
    \/ HandleText
    \/ HandleInt
    \/ HandleLong
    \/ HandleList
    \/ Del

Spec == Init /\ [][Next]_vars

----------------------------------------------------------------------------
(* The composite properties, on a constructed client (SpecProps) *)

NumberResponses(tag) ==
    { TransportError, Resp(<<StatusOk>>),
      Resp(<<StatusOk, ValueNode(tag, <<"1">>)>>),
      Resp(<<StatusOk, ValueNode(tag, <<"7">>)>>) }

PropLists == UNION {[1..n -> {ItemA, ItemB, ItemBand}] : n \in 0..MaxItems}

PropListResponses == {TransportError} \cup {Resp(<<StatusOk>> \o l) : l \in PropLists}

PropSetResponses == {TransportError, Resp(<<StatusOk>>), Resp(<<StatusFail>>)}

Labels == {PyStr(<<"a">>), PyStr(<<"c">>)}

PlayStatus ==
    /\ phase = "ready"
    /\ \E r1 \in NumberResponses("u8") :
          Ran([name |-> "play_status", r1 |-> r1], play_status(Self, r1))

GetMute ==
    /\ phase = "ready"
    /\ \E r1 \in NumberResponses("u8") :
          Ran([name |-> "get_mute", r1 |-> r1], get_mute(Self, r1))

GetPower ==
    /\ phase = "ready"
    /\ \E r1 \in NumberResponses("u8") :
          Ran([name |-> "get_power", r1 |-> r1], get_power(Self, r1))

GetState ==
    /\ phase = "ready"
    /\ \E r1 \in NumberResponses("u8") :
          Ran([name |-> "get_state", r1 |-> r1], get_state(Self, r1))

ModeList ==
    /\ phase = "ready"
    /\ \E r1 \in PropListResponses :
          Ran([name |-> "mode_list", r1 |-> r1], mode_list(Self, r1))

GetMode ==
    /\ phase = "ready"
    /\ \E r1 \in NumberResponses("u32"), r2 \in PropListResponses :
          Ran([name |-> "get_mode", r1 |-> r1, r2 |-> r2], get_mode(Self, r1, r2))

GetEqPreset ==
    /\ phase = "ready"
    /\ \E r1 \in NumberResponses("u8"), r2 \in PropListResponses :
          Ran([name |-> "get_eq_preset", r1 |-> r1, r2 |-> r2], get_eq_preset(Self, r1, r2))

SetMode ==
    /\ phase = "ready"
    /\ \E value \in Labels, r1 \in PropListResponses, r2 \in PropSetResponses :
          Ran([name |-> "set_mode", value |-> value, r1 |-> r1, r2 |-> r2],
              set_mode(Self, value, r1, r2))

SetPreset ==
    /\ phase = "ready"
    /\ \E value \in Labels, r1 \in PropListResponses, r2 \in PropSetResponses :
          Ran([name |-> "set_preset", value |-> value, r1 |-> r1, r2 |-> r2],
              set_preset(Self, value, r1, r2))

SetEqPreset ==
    /\ phase = "ready"
    /\ \E value \in Labels, r1 \in PropListResponses, r2 \in PropSetResponses :
          Ran([name |-> "set_eq_preset", value |-> value, r1 |-> r1, r2 |-> r2],
              set_eq_preset(Self, value, r1, r2))

NextProps ==
    \/ Construct
    \/ PlayStatus
    \/ GetMute
    \/ GetPower
    \/ GetState
    \/ ModeList
    \/ GetMode
    \/ GetEqPreset
    \/ SetMode
    \/ SetPreset
    \/ SetEqPreset

SpecProps == Init /\ [][NextProps]_vars

----------------------------------------------------------------------------
(* Typed leaves, encoded as the device sends them and decoded by the
   handlers (SpecCodec) *)

Alphabet == {"a", "b", "7"}
TextInputs == UNION {[1..n -> Alphabet] : n \in 0..MaxTextLen}
U8Inputs == 0..255
U32Inputs == {0, 9, 10, 255, 256, 65535, 65536, 99999, 1000000000, 2147483647}

\* the GET response that carries v in the node of its type
encode_for_test(type, v) ==
    Resp(<<StatusOk, ValueNode(type, IF type = "c8_array" THEN v.s ELSE EncodeInt(v.i))>>)

Encoded ==
    {[name |-> "encode_for_test", type |-> "c8_array", v |-> PyStr(x)] : x \in TextInputs}
    \cup {[name |-> "encode_for_test", type |-> "u8", v |-> PyInt(x)] : x \in U8Inputs}
    \cup {[name |-> "encode_for_test", type |-> "u32", v |-> PyInt(x)] : x \in U32Inputs}

\* a client whose construction succeeded, and a value to send it
InitCodec ==
    /\ phase = "ready"
    /\ pin = ThePin
    /\ sid = PyStr(SessionId)
    /\ webfsapi = PyStr(Endpoint)
    /\ op \in Encoded
    /\ out = Return(None, <<>>)

GetText ==
    /\ op.name = "encode_for_test"
    /\ op.type = "c8_array"
    /\ Ran([name |-> "handle_text", v |-> op.v],
           handle_text(Self, "netRemote.play.info.name", encode_for_test(op.type, op.v)))

GetInt ==
    /\ op.name = "encode_for_test"
    /\ op.type = "u8"
    /\ Ran([name |-> "handle_int", v |-> op.v],
           handle_int(Self, "netRemote.sys.audio.volume", encode_for_test(op.type, op.v)))

GetLong ==
    /\ op.name = "encode_for_test"
    /\ op.type = "u32"
    /\ Ran([name |-> "handle_long", v |-> op.v],
           handle_long(Self, "netRemote.play.position", encode_for_test(op.type, op.v)))

NextCodec ==
    \/ GetText
    \/ GetInt
    \/ GetLong

SpecCodec == InitCodec /\ [][NextCodec]_vars

----------------------------------------------------------------------------
(* Properties of the call primitive, construction and the handlers (Spec) *)

\* the response is a transport failure, a 404, or a body that does not parse
Undeliverable(resp) ==
    \/ resp.kind = "error"
    \/ resp.status_code = 404
    \/ ~resp.content.wf

Root(resp) == resp.content.root

\* C1: call returns None and does not raise when the endpoint is unset, the
\* transport fails, the status is 404 or the body does not parse; with the
\* endpoint unset it issues no request. (out of __del__ is the result of the
\* one call it makes.)
C1_CallAbsentNeverRaises ==
    op.name \in {"call", "__del__"} =>
        /\ (webfsapi = None \/ Undeliverable(op.resp)) => (~out.raised /\ out.ret = None)
        /\ webfsapi = None => out.sent = <<>>
        /\ webfsapi # None => Len(out.sent) = 1

C1_Witness ==
    /\ op.name = "__del__"
    /\ webfsapi = None
    /\ ~out.raised
    /\ out.ret = None
    /\ out.sent = <<>>

DiscoveryFails(r1) == Undeliverable(r1) \/ ~HasChild(Root(r1), "webfsapi")

\* C2 as claimed: when discovery fails, construction completes without
\* raising and leaves the endpoint unset.
C2_ConstructionSurvivesDiscoveryFailure ==
    (op.name = "__init__" /\ DiscoveryFails(op.r1)) =>
        (~out.raised /\ phase = "ready" /\ webfsapi = None)

DiscoverySucceeds(r1) == ~DiscoveryFails(r1) /\ Child(Root(r1), "webfsapi").text # <<>>

SessionFails(r2) == Undeliverable(r2) \/ ~HasChild(Root(r2), "sessionId")

\* C3 as claimed: when discovery succeeds and CREATE_SESSION fails,
\* construction completes without raising and leaves the session id unset.
C3_ConstructionSurvivesSessionFailure ==
    (op.name = "__init__" /\ DiscoverySucceeds(op.r1) /\ SessionFails(op.r2)) =>
        (~out.raised /\ phase = "ready" /\ sid = None /\ webfsapi # None)

TypedTag == [handle_text |-> "c8_array", handle_int |-> "u8", handle_long |-> "u32"]

HasTyped(resp, tag) ==
    /\ ~Undeliverable(resp)
    /\ HasChild(Root(resp), "value")
    /\ HasChild(Child(Root(resp), "value"), tag)

\* C5 as claimed: handle_text, handle_int and handle_long return None without
\* raising when the call fails and when the response lacks the typed child.
C5_MissingLeafIsAbsent ==
    (op.name \in DOMAIN TypedTag /\ ~HasTyped(op.resp, TypedTag[op.name])) =>
        (~out.raised /\ out.ret = None)

HasStatus(resp) == ~Undeliverable(resp) /\ HasChild(Root(resp), "status")

C8_BandIsPosition ==
    (op.name = "handle_list" /\ ~out.raised /\ HasStatus(op.resp)
        /\ Child(Root(op.resp), "status").text = FS_OK) =>
        /\ Len(out.ret.l) = Len(ItemNodes(Root(op.resp)))
        /\ \A i \in 1..Len(out.ret.l) : out.ret.l[i].d["band"] = PyInt(i - 1)

\* C9 as claimed: every request call issues carries the client's own pin and
\* session id, whatever extra holds.
C9_ReservedParamsKept ==
    op.name = "call" =>
        \A i \in 1..Len(out.sent) :
            /\ out.sent[i].params["pin"] = pin
            /\ out.sent[i].params["sid"] = sid

----------------------------------------------------------------------------
(* Properties of the composite operations (SpecProps) *)

\* some call the operation made was not delivered
ACallFailed ==
    \/ Undeliverable(op.r1)
    \/ ("r2" \in DOMAIN op /\ Len(out.sent) = 2 /\ Undeliverable(op.r2))

Composite ==
    { "play_status", "get_mute", "get_power", "get_state", "mode_list",
      "get_mode", "get_eq_preset", "set_mode", "set_preset", "set_eq_preset" }

\* C4 as claimed: when an underlying call fails, a getter or setter returns
\* without raising, and returns None, False or an empty sequence.
C4_FailureCollapses ==
    (op.name \in Composite /\ ACallFailed) =>
        /\ ~out.raised
        /\ \/ out.ret = None
           \/ out.ret = PyBool(FALSE)
           \/ out.ret = PyList(<<>>)

\* the text of the payload of the field of an item node that is named key
FieldText(item, key) ==
    LET f == item.children[CHOOSE i \in 1..Len(item.children) : item.children[i].name = key]
    IN  f.children[Len(f.children)].text

HasField(item, key) == \E i \in 1..Len(item.children) : item.children[i].name = key

\* the positions of the items of a list response whose label is the text
LabelPositions(resp, text) ==
    IF Undeliverable(resp) THEN {}
    ELSE {i \in 1..Len(ItemNodes(Root(resp))) :
             /\ HasField(ItemNodes(Root(resp))[i], "label")
             /\ FieldText(ItemNodes(Root(resp))[i], "label") = text}

FirstOf(S) == CHOOSE i \in S : \A j \in S : i <= j

NoBandField(resp) ==
    Undeliverable(resp) \/
    \A i \in 1..Len(ItemNodes(Root(resp))) : ~HasField(ItemNodes(Root(resp))[i], "band")

\* C7 as claimed, for set_mode and set_eq_preset on lists whose items carry
\* no field named band: the value sent in the SET request is the position of
\* the first item whose label is the requested one, and -1 when there is none.
C7_FirstMatchIsSent ==
    (op.name \in {"set_mode", "set_eq_preset"} /\ NoBandField(op.r1) /\ Len(out.sent) = 2) =>
        LET hits == LabelPositions(op.r1, op.value.s)
        IN  out.sent[2].params["value"] =
                (IF hits = {} THEN PyInt(-1) ELSE PyInt(FirstOf(hits) - 1))

----------------------------------------------------------------------------
(* Properties of the typed leaves (SpecCodec) *)

Decoded == op.name \in {"handle_text", "handle_int", "handle_long"}

\* C10 as claimed: a value of a supported leaf type, the empty string
\* included, is decoded back to itself.
C10_RoundTrip ==
    Decoded => (~out.raised /\ out.ret = op.v)

\* C10 as amended: a non-empty string, an integer of the u8 range and an
\* integer of the u32 range are decoded back to themselves; the empty string
\* is decoded to None.
C10_RoundTripNonEmpty ==
    Decoded =>
        /\ ~out.raised
        /\ out.ret = (IF op.v = PyStr(<<>>) THEN None ELSE op.v)

C10_Witness ==
    /\ op.name = "handle_text"
    /\ op.v = PyStr(<<"a", "7">>)
    /\ ~out.raised
    /\ out.ret = op.v

====
